---- MODULE Spec2Model ----
(***************************************************************************)
(* Model of src/graph/graph_bind.cc: the Boost.Python bridge of the        *)
(* libgraph_tool_core module.                                              *)
(*                                                                         *)
(* The state is what the module initializer builds (the from-python        *)
(* converter registry, the to-python converters, the exception             *)
(* translators, the host classes and functions) together with the outcome  *)
(* of the last bridged call made by the host once the module is loaded.    *)
(***************************************************************************)
EXTENDS Integers, Sequences, FiniteSets, TLC

(***************************************************************************)
(* Bounds of the model.                                                    *)
(***************************************************************************)
\* longest host / native sequence
MaxLen == 3
\* scalar payloads are 0..MaxVal
MaxVal == 1
\* longest error message, in characters
MaxMsgLen == 2
\* characters of a message are 1..MaxChar; 0 is the terminating NUL
MaxChar == 2

(***************************************************************************)
(* Host (Python) values.  Every host value is a record                     *)
(*   kind  : the host type of the object                                   *)
(*   val   : the payload of a scalar / enum value                          *)
(*   items : the positional elements of a list or tuple                    *)
(***************************************************************************)
NoItems == << >>

HostScalarKinds == {"int", "float", "str"}

HostScalars == [kind : HostScalarKinds, val : 0..MaxVal, items : {NoItems}]

SeqsUpTo(S, n) == UNION {[1..k -> S] : k \in 0..n}

HostSequences ==
    {[kind |-> "list", val |-> 0, items |-> s] : s \in SeqsUpTo(HostScalars, MaxLen)}

\* objects offered to a deg_t parameter: a wrapped boost::any, a Degree enum
\* value, an object for which both extract<> checks succeed, and scalars
HostDegValues ==
    {[kind |-> "any", val |-> 0, items |-> NoItems],
     [kind |-> "any+Degree", val |-> 0, items |-> NoItems]}
    \cup {[kind |-> "Degree", val |-> d, items |-> NoItems] : d \in 0..MaxVal}
    \cup HostScalars

\* Python's == on the scalars above: numbers compare by value whatever their
\* type, a string only equals the same string
HostEq(h1, h2) ==
    IF h1.kind = "str" \/ h2.kind = "str"
    THEN h1.kind = h2.kind /\ h1.val = h2.val
    ELSE h1.val = h2.val

(***************************************************************************)
(* Native types.                                                           *)
(***************************************************************************)
\* graph_tool::scalar_types (graph_properties.hh)
scalar_types == <<"int32_t", "double", "long double">>

\* mpl::push_back<scalar_types,string>::type
VectorValueTypes == Append(scalar_types, "string")

\* numpy_types (numpy_bind.hh): the element types with a numpy type number
numpy_types == {"bool", "uint8_t", "int16_t", "int32_t", "int64_t",
                "double", "long double"}

IntegerTypes == {"int32_t", "size_t"}
FloatTypes == {"double", "long double"}

\* extract<ValueType>(o).check(): the host kinds a native type is built from
ExtractCheck(T, h) ==
    CASE T \in IntegerTypes -> h.kind = "int"
      [] T \in FloatTypes   -> h.kind \in {"int", "float"}
      [] T = "string"       -> h.kind = "str"
      [] T = "boost::any"   -> h.kind \in {"any", "any+Degree"}
      [] T = "degree_t"     -> h.kind \in {"Degree", "any+Degree"}
      [] OTHER              -> FALSE

\* extract<ValueType>(o): the native value, the payload without its host type
Extract(T, h) == h.val

\* the host object a native element is returned as
ToHostKind(T) ==
    CASE T \in IntegerTypes -> "int"
      [] T \in FloatTypes   -> "float"
      [] OTHER              -> "str"

ToHostElem(T, n) == [kind |-> ToHostKind(T), val |-> n, items |-> NoItems]

\* toHost of a native sequence (vector_indexing_suite): element i of the host
\* view is the host conversion of element i of the vector
ToHostSeq(T, v) == [i \in 1..Len(v) |-> ToHostElem(T, v[i])]

(***************************************************************************)
(* vector_from_list<ValueType>                                             *)
(***************************************************************************)
RECURSIVE convertible_loop(_, _, _, _)
\* for (i = ...; i < N; ++i) { if (!elem.check()) return 0; } return obj_ptr;
convertible_loop(T, o, i, N) ==
    IF i > N THEN "obj_ptr"
    ELSE IF ~ExtractCheck(T, o.items[i]) THEN "0"
    ELSE convertible_loop(T, o, i + 1, N)

\* a convertible() that stops one element early
vector_from_list_convertible_short(T, o) ==
    convertible_loop(T, o, 1, IF Len(o.items) = 0 THEN 0 ELSE Len(o.items) - 1)

vector_from_list_convertible(T, o) == convertible_loop(T, o, 1, Len(o.items))

RECURSIVE construct_loop(_, _, _, _)
\* for (i = ...; i < N; ++i) value.push_back(extract<ValueType>(o[i]));
\* extract<> throws when the element is not convertible
construct_loop(T, o, i, value) ==
    IF i > Len(o.items) THEN [ok |-> TRUE, value |-> value]
    ELSE IF ~ExtractCheck(T, o.items[i]) THEN [ok |-> FALSE, value |-> << >>]
    ELSE construct_loop(T, o, i + 1, Append(value, Extract(T, o.items[i])))

\* a construct() whose loop starts one element late
vector_from_list_construct_late(T, o) == construct_loop(T, o, 2, << >>)

vector_from_list_construct(T, o) == construct_loop(T, o, 1, << >>)

(***************************************************************************)
(* vector_equal_compare / vector_nequal_compare                            *)
(***************************************************************************)
RECURSIVE equal_loop(_, _, _, _)
\* for (i = 0; i < N; ++i) { if (v1[i] != v2[i]) return false; } return true;
equal_loop(v1, v2, i, N) ==
    IF i > N THEN TRUE
    ELSE IF v1[i] # v2[i] THEN FALSE
    ELSE equal_loop(v1, v2, i + 1, N)

Min(a, b) == IF a < b THEN a ELSE b

\* an equality that forgets the size test
vector_equal_compare_nosize(v1, v2) ==
    equal_loop(v1, v2, 1, Min(Len(v1), Len(v2)))

vector_equal_compare(v1, v2) ==
    IF Len(v1) # Len(v2) THEN FALSE
    ELSE equal_loop(v1, v2, 1, Len(v1))

\* an inequality written on its own: some common position differs
vector_nequal_compare_own(v1, v2) ==
    \E i \in 1..Min(Len(v1), Len(v2)) : v1[i] # v2[i]

vector_nequal_compare(v1, v2) == ~vector_equal_compare(v1, v2)

(***************************************************************************)
(* pair_from_tuple<T1,T2>                                                  *)
(***************************************************************************)
\* o[i] of a host sequence: the element, or IndexError past the end
HasItem(o, i) == i + 1 <= Len(o.items)

Item(o, i) == o.items[i + 1]

pair_from_tuple_convertible(T1, T2, o) ==
    IF ~HasItem(o, 0) THEN "IndexError"
    ELSE IF ~HasItem(o, 1) THEN "IndexError"
    ELSE IF ~ExtractCheck(T1, Item(o, 0)) \/ ~ExtractCheck(T2, Item(o, 1)) THEN "0"
    ELSE "obj_ptr"

pair_from_tuple_construct(T1, T2, o) ==
    IF HasItem(o, 1) /\ ExtractCheck(T1, Item(o, 0)) /\ ExtractCheck(T2, Item(o, 1))
    THEN [ok |-> TRUE, value |-> <<Extract(T1, Item(o, 0)), Extract(T2, Item(o, 1))>>]
    ELSE [ok |-> FALSE, value |-> << >>]

(***************************************************************************)
(* variant_from_python<ValueType>                                          *)
(***************************************************************************)
variant_from_python_convertible(T, o) ==
    IF ~ExtractCheck(T, o) THEN "0" ELSE "obj_ptr"

\* GraphInterface::deg_t deg = value: the variant holds the alternative T
variant_from_python_construct(T, o) ==
    IF ExtractCheck(T, o)
    THEN [ok |-> TRUE, value |-> <<T, Extract(T, o)>>]
    ELSE [ok |-> FALSE, value |-> << >>]

(***************************************************************************)
(* graph_exception_translator<Exception>                                   *)
(***************************************************************************)
NativeErrors == {"GraphException", "IOException", "ValueException"}

HostErrors == {"RuntimeError", "IOError", "ValueError"}

\* the values the uninitialized  PyObject* error  may hold
Uninitialized == HostErrors \cup {"garbage"}

NUL == 0

\* messages are C strings: characters other than NUL
Messages == SeqsUpTo(1..MaxChar, MaxMsgLen)

\* e.what(): the characters followed by the terminating NUL
what(m) == Append(m, NUL)

RECURSIVE PyString_FromString(_)
\* copies the characters up to the first NUL
PyString_FromString(cstr) ==
    IF cstr = << >> \/ Head(cstr) = NUL THEN << >>
    ELSE <<Head(cstr)>> \o PyString_FromString(Tail(cstr))

\* a translator that has lost the IOException branch
graph_exception_translator_noio(Exception, m, uninit) ==
    LET e1 == IF Exception = "GraphException" THEN "RuntimeError" ELSE uninit
        e3 == IF Exception = "ValueException" THEN "ValueError" ELSE e1
    IN  [type |-> e3,
         text |-> PyString_FromString(what(m)),
         attr |-> <<e3, "message", PyString_FromString(what(m))>>]

graph_exception_translator(Exception, m, uninit) ==
    LET e1 == IF Exception = "GraphException" THEN "RuntimeError" ELSE uninit
        e2 == IF Exception = "IOException" THEN "IOError" ELSE e1
        e3 == IF Exception = "ValueException" THEN "ValueError" ELSE e2
        message == PyString_FromString(what(m))
    IN  [type |-> e3,
         text |-> PyString_FromString(what(m)),
         attr |-> <<e3, "message", message>>]

(***************************************************************************)
(* The converter registry.  A key is the native type a converter builds;   *)
(* the chain under a key holds its from-python converters in probe order.  *)
(***************************************************************************)
VecKey(T) == <<"vector", T, "">>

PairKey(T1, T2) == <<"pair", T1, T2>>

DegKey == <<"deg_t", "", "">>

PairTypes == {<<"double", "double">>, <<"size_t", "size_t">>}

TypeKeys ==
    {VecKey(VectorValueTypes[i]) : i \in 1..Len(VectorValueTypes)}
    \cup {PairKey(p[1], p[2]) : p \in PairTypes}
    \cup {DegKey}

Entry(conv, T1, T2) == [conv |-> conv, T1 |-> T1, T2 |-> T2]

\* converter::registry::push_back(&convertible, &construct, type_id<...>())
registry_push_back(reg, key, entry) == [reg EXCEPT ![key] = Append(@, entry)]

\* entry.convertible(obj_ptr)
Convertible(e, o) ==
    CASE e.conv = "vector_from_list"    -> vector_from_list_convertible(e.T1, o)
      [] e.conv = "pair_from_tuple"     -> pair_from_tuple_convertible(e.T1, e.T2, o)
      [] e.conv = "variant_from_python" -> variant_from_python_convertible(e.T1, o)

\* entry.construct(obj_ptr, data)
Construct(e, o) ==
    CASE e.conv = "vector_from_list"    -> vector_from_list_construct(e.T1, o)
      [] e.conv = "pair_from_tuple"     -> pair_from_tuple_construct(e.T1, e.T2, o)
      [] e.conv = "variant_from_python" -> variant_from_python_construct(e.T1, o)

RECURSIVE probe(_, _, _)
\* the chain is walked front to back; the first converter whose convertible()
\* returns non-null is used; an exception thrown by convertible() ends the call
probe(chain, o, i) ==
    IF i > Len(chain) THEN [status |-> "TypeConversion", by |-> 0]
    ELSE LET r == Convertible(chain[i], o)
         IN  IF r = "obj_ptr" THEN [status |-> "ok", by |-> i]
             ELSE IF r = "0" THEN probe(chain, o, i + 1)
             ELSE [status |-> r, by |-> i]

\* a host value passed where the native type `key` is expected
from_python(reg, key, o) ==
    LET p == probe(reg[key], o, 1)
    IN  IF p.status # "ok"
        THEN [status |-> p.status, by |-> p.by, value |-> << >>]
        ELSE LET c == Construct(reg[key][p.by], o)
             IN  IF c.ok THEN [status |-> "ok", by |-> p.by, value |-> c.value]
                 ELSE [status |-> "TypeConversion", by |-> p.by, value |-> << >>]

(***************************************************************************)
(* export_vector_types                                                     *)
(***************************************************************************)
\* get_type_name<>()(typeid(ValueType)), "long double" spelt long_double
VectorClassName(T) ==
    "Vector_" \o (IF T = "long double" THEN "long_double" ELSE T)

\* a wrap_array that ignores the type gate
wrap_array_always(T) == {"get_array"}

\* wrap_array(vc, mpl::has_key<numpy_types,ValueType>::type())
wrap_array(T) == IF T \in numpy_types THEN {"get_array"} ELSE {}

\* the methods vector_indexing_suite gives the class
vector_indexing_suite ==
    {"__getitem__", "__setitem__", "__delitem__", "__len__", "__contains__",
     "__iter__", "append", "extend"}

\* the methods of the class export_vector_types::operator() builds
VectorClassMethods(T) ==
    vector_indexing_suite \cup {"__eq__", "__ne__"} \cup wrap_array(T)

\* the native function bound to a comparison method
VectorMethod(name, v1, v2) ==
    CASE name = "__eq__" -> vector_equal_compare(v1, v2)
      [] name = "__ne__" -> vector_nequal_compare(v1, v2)

(***************************************************************************)
(* BOOST_PYTHON_MODULE(libgraph_tool_core): the statements of the          *)
(* initializer, in source order                                            *)
(***************************************************************************)
St(stmt, a, b) == [stmt |-> stmt, a |-> a, b |-> b]

ProgramHead ==
    << St("import_array", "", ""),
       St("export_python_interface", "", ""),
       St("register_exception_translator", "GraphException", ""),
       St("register_exception_translator", "IOException", ""),
       St("register_exception_translator", "ValueException", ""),
       St("def", "raise_error", ""),
       St("def", "get_property_types", ""),
       St("class_", "any", ""),
       St("def", "graph_filtering_enabled", ""),
       St("def", "openmp_enabled", "") >>

\* mpl::for_each<...>(export_vector_types()): one call per value type
ProgramVectors ==
    [i \in 1..Len(VectorValueTypes) |->
        St("export_vector_types", VectorValueTypes[i], "")]

ProgramGraphInterface ==
    << St("class_", "GraphInterface", ""),
       St("class_", "vertex_index_map", ""),
       St("class_", "edge_index_map", ""),
       St("class_", "graph_index_map", ""),
       St("enum_", "Degree", "") >>

\* the tagged-union alternatives registered the other way round
ProgramVariantsSwapped ==
    << St("variant_from_python", "degree_t", ""),
       St("variant_from_python", "boost::any", "") >>

ProgramVariants ==
    << St("variant_from_python", "boost::any", ""),
       St("variant_from_python", "degree_t", "") >>

ProgramPairs ==
    << St("to_python_converter", "string", "bool"),
       St("to_python_converter", "size_t", "size_t"),
       St("to_python_converter", "double", "double"),
       St("pair_from_tuple", "double", "double"),
       St("pair_from_tuple", "size_t", "size_t") >>

ProgramTail ==
    << St("class_", "IStream", ""),
       St("class_", "OStream", ""),
       St("def", "set_pickler", ""),
       St("def", "set_unpickler", ""),
       St("def", "group_vector_property", ""),
       St("def", "ungroup_vector_property", ""),
       St("class_", "mod_info", ""),
       St("def", "get_graph_type", "") >>

\* the pair adapters registered ahead of the tagged-union alternatives
ProgramConvertersPairsFirst == ProgramPairs \o ProgramVariants

ProgramConverters == ProgramVariants \o ProgramPairs

Program ==
    ProgramHead \o ProgramVectors \o ProgramGraphInterface \o ProgramConverters
    \o ProgramTail

Done == Len(Program) + 1

(***************************************************************************)
(* State                                                                   *)
(***************************************************************************)
VARIABLES
    pc,          \* the next statement of the initializer; Done when it returned
    registry,    \* from-python converters: type key -> chain of entries
    toPython,    \* the pairs with a to_python_converter
    translators, \* the exception kinds with a translator, in registration order
    classes,     \* host class name -> its methods
    defs,        \* the flat functions of the module
    last         \* the last bridged call of the host and its outcome

vars == <<pc, registry, toPython, translators, classes, defs, last>>

NoCall == [op |-> "none"]

Init ==
    /\ pc = 1
    /\ registry = [k \in TypeKeys |-> << >>]
    /\ toPython = {}
    /\ translators = << >>
    /\ classes = << >>
    /\ defs = {}
    /\ last = NoCall

At(stmt) == pc < Done /\ Program[pc].stmt = stmt

AddClass(name, methods) ==
    classes' = [n \in DOMAIN classes \cup {name} |->
                   IF n = name THEN methods ELSE classes[n]]

\* import_array(); export_python_interface(): nothing of this file's state
External ==
    /\ At("import_array") \/ At("export_python_interface")
    /\ pc' = pc + 1
    /\ UNCHANGED <<registry, toPython, translators, classes, defs, last>>

RegisterExceptionTranslator ==
    /\ At("register_exception_translator")
    /\ translators' = Append(translators, Program[pc].a)
    /\ pc' = pc + 1
    /\ UNCHANGED <<registry, toPython, classes, defs, last>>

Def ==
    /\ At("def")
    /\ defs' = defs \cup {Program[pc].a}
    /\ pc' = pc + 1
    /\ UNCHANGED <<registry, toPython, translators, classes, last>>

ClassDef ==
    /\ At("class_") \/ At("enum_")
    /\ AddClass(Program[pc].a, {})
    /\ pc' = pc + 1
    /\ UNCHANGED <<registry, toPython, translators, defs, last>>

\* export_vector_types::operator()(ValueType)
ExportVectorType ==
    /\ At("export_vector_types")
    /\ LET T == Program[pc].a
       IN  /\ AddClass(VectorClassName(T), VectorClassMethods(T))
           /\ registry' = registry_push_back(registry, VecKey(T),
                                             Entry("vector_from_list", T, ""))
    /\ pc' = pc + 1
    /\ UNCHANGED <<toPython, translators, defs, last>>

\* variant_from_python<ValueType>()
VariantFromPython ==
    /\ At("variant_from_python")
    /\ registry' = registry_push_back(registry, DegKey,
                                      Entry("variant_from_python", Program[pc].a, ""))
    /\ pc' = pc + 1
    /\ UNCHANGED <<toPython, translators, classes, defs, last>>

\* to_python_converter<pair<T1,T2>, pair_to_tuple<T1,T2> >()
ToPythonConverter ==
    /\ At("to_python_converter")
    /\ toPython' = toPython \cup {<<Program[pc].a, Program[pc].b>>}
    /\ pc' = pc + 1
    /\ UNCHANGED <<registry, translators, classes, defs, last>>

\* pair_from_tuple<T1,T2>()
PairFromTuple ==
    /\ At("pair_from_tuple")
    /\ registry' = registry_push_back(registry, PairKey(Program[pc].a, Program[pc].b),
                        Entry("pair_from_tuple", Program[pc].a, Program[pc].b))
    /\ pc' = pc + 1
    /\ UNCHANGED <<toPython, translators, classes, defs, last>>

(***************************************************************************)
(* Bridged calls, reachable once the initializer has returned.  The bridge  *)
(* is synchronous: one call crosses the boundary at a time.                *)
(***************************************************************************)
Idle == pc = Done /\ last = NoCall
NativeVectors == SeqsUpTo(0..MaxVal, MaxLen)

\* a host sequence passed where vector<T> is expected, and the host view of
\* the vector built from it
CallVectorFromList ==
    /\ Idle
    /\ \E i \in 1..Len(VectorValueTypes), o \in HostSequences :
          LET T == VectorValueTypes[i]
              r == from_python(registry, VecKey(T), o)
          IN  last' = [op |-> "vector", T |-> T, arg |-> o,
                       accepted |-> vector_from_list_convertible(T, o),
                       res |-> r,
                       back |-> IF r.status = "ok" THEN ToHostSeq(T, r.value)
                                ELSE << >>]
    /\ UNCHANGED <<pc, registry, toPython, translators, classes, defs>>

\* the host evaluates  a == b  and  a != b  on two Vector_<T> objects
CallVectorCompare ==
    /\ Idle
    /\ \E i \in 1..Len(VectorValueTypes), v1 \in NativeVectors, v2 \in NativeVectors :
          LET T == VectorValueTypes[i]
              C == VectorClassName(T)
          IN  /\ C \in DOMAIN classes
              /\ {"__eq__", "__ne__"} \subseteq classes[C]
              /\ last' = [op |-> "compare", T |-> T, v1 |-> v1, v2 |-> v2,
                          eq |-> VectorMethod("__eq__", v1, v2),
                          ne |-> VectorMethod("__ne__", v1, v2)]
    /\ UNCHANGED <<pc, registry, toPython, translators, classes, defs>>

\* a host sequence passed where pair<T1,T2> is expected
CallPairFromTuple ==
    /\ Idle
    /\ \E p \in PairTypes, o \in HostSequences :
          last' = [op |-> "pair", T1 |-> p[1], T2 |-> p[2], arg |-> o,
                   res |-> from_python(registry, PairKey(p[1], p[2]), o)]
    /\ UNCHANGED <<pc, registry, toPython, translators, classes, defs>>

\* a host value passed where GraphInterface::deg_t is expected
CallVariantFromPython ==
    /\ Idle
    /\ \E o \in HostDegValues :
          last' = [op |-> "deg_t", arg |-> o,
                   res |-> from_python(registry, DegKey, o)]
    /\ UNCHANGED <<pc, registry, toPython, translators, classes, defs>>

InSeq(x, s) == \E i \in 1..Len(s) : s[i] = x

\* a bridged operation throws a native error with message m; the translator
\* registered for its kind turns it into the host error
ThrowNativeError ==
    /\ Idle
    /\ \E Exception \in NativeErrors, m \in Messages, uninit \in Uninitialized :
          /\ InSeq(Exception, translators)
          /\ last' = [op |-> "throw", kind |-> Exception, m |-> m,
                      err |-> graph_exception_translator(Exception, m, uninit)]
    /\ UNCHANGED <<pc, registry, toPython, translators, classes, defs>>

\* the call returns to the host
Return ==
    /\ pc = Done
    /\ last # NoCall
    /\ last' = NoCall
    /\ UNCHANGED <<pc, registry, toPython, translators, classes, defs>>

Next ==
    \/ External
    \/ RegisterExceptionTranslator
    \/ Def
    \/ ClassDef
    \/ ExportVectorType
    \/ VariantFromPython
    \/ ToPythonConverter
    \/ PairFromTuple
    \/ CallVectorFromList
    \/ CallVectorCompare
    \/ CallPairFromTuple
    \/ CallVariantFromPython
    \/ ThrowNativeError
    \/ Return

Spec == Init /\ [][Next]_vars

TypeOK ==
    /\ pc \in 1..Done
    /\ DOMAIN registry = TypeKeys

(***************************************************************************)
(* Properties                                                              *)
(***************************************************************************)
AllConvertible(T, o) == \A i \in 1..Len(o.items) : ExtractCheck(T, o.items[i])

\* C1: a host sequence whose elements are all convertible to T is built into
\* a vector of the same length whose i-th element is the conversion of the
\* i-th host element, and its host view is element-wise equal to the input.
C1_RoundTrip ==
    (last.op = "vector" /\ AllConvertible(last.T, last.arg)) =>
        /\ last.res.status = "ok"
        /\ Len(last.res.value) = Len(last.arg.items)
        /\ \A i \in 1..Len(last.arg.items) :
              last.res.value[i] = Extract(last.T, last.arg.items[i])
        /\ Len(last.back) = Len(last.arg.items)
        /\ \A i \in 1..Len(last.arg.items) : HostEq(last.back[i], last.arg.items[i])

\* a sequence of two different numbers, one an int, converted to doubles
C1_Witness ==
    /\ last.op = "vector"
    /\ last.T = "double"
    /\ last.res.status = "ok"
    /\ Len(last.arg.items) >= 2
    /\ last.arg.items[1].kind = "int"
    /\ last.arg.items[1].val # last.arg.items[2].val
    /\ last.back[1].kind = "float"

\* C2: convertible() accepts a host sequence iff every element is convertible
\* to T; otherwise the call fails with a type conversion error and no vector,
\* not even a partial one, is produced.
C2_AllOrNothing ==
    last.op = "vector" =>
        /\ (last.accepted = "obj_ptr") <=> AllConvertible(last.T, last.arg)
        /\ last.accepted \in {"obj_ptr", "0"}
        /\ ~AllConvertible(last.T, last.arg) =>
              /\ last.res.status = "TypeConversion"
              /\ last.res.value = << >>
              /\ last.back = << >>

\* a mixed sequence: a convertible first element, a later one that is not
C2_Witness ==
    /\ last.op = "vector"
    /\ Len(last.arg.items) >= 2
    /\ ExtractCheck(last.T, last.arg.items[1])
    /\ ~ExtractCheck(last.T, last.arg.items[Len(last.arg.items)])
    /\ last.res.status = "TypeConversion"

\* C3: for any two vectors of one element type, __ne__ is the negation of
\* __eq__: they never both hold and never both fail.
C3_NeIsNotEq ==
    last.op = "compare" => (last.ne <=> ~last.eq)

\* vectors of different lengths, one a non-empty prefix of the other
C3_Witness ==
    /\ last.op = "compare"
    /\ Len(last.v1) >= 1
    /\ Len(last.v2) > Len(last.v1)
    /\ \A i \in 1..Len(last.v1) : last.v1[i] = last.v2[i]
    /\ last.ne

\* C4: a host value passed as deg_t is probed against the alternatives in
\* registration order, boost::any then degree_t; it becomes the first
\* alternative that accepts it (the earlier one when both do), whatever was
\* called before, and fails with a type conversion error when none does.
C4_FirstMatch ==
    last.op = "deg_t" =>
        LET order == <<"boost::any", "degree_t">>
            acc == {i \in 1..2 : ExtractCheck(order[i], last.arg)}
            first == CHOOSE i \in acc : \A j \in acc : i <= j
        IN  /\ Len(registry[DegKey]) = 2
            /\ \A i \in 1..2 : registry[DegKey][i].T1 = order[i]
            /\ acc = {} => last.res.status = "TypeConversion"
            /\ acc # {} =>
                  /\ last.res.status = "ok"
                  /\ last.res.by = first
                  /\ last.res.value = <<order[first], Extract(order[first], last.arg)>>

\* a value both alternatives accept resolved to the first one
C4_Witness ==
    /\ last.op = "deg_t"
    /\ ExtractCheck("boost::any", last.arg)
    /\ ExtractCheck("degree_t", last.arg)
    /\ last.res.status = "ok"
    /\ last.res.value[1] = "boost::any"

HostCategory(kind) ==
    CASE kind = "GraphException" -> "RuntimeError"
      [] kind = "IOException"    -> "IOError"
      [] kind = "ValueException" -> "ValueError"

\* C5: each of the three native error kinds is translated to exactly its host
\* category, chosen by the kind whatever the message, never left unset; the
\* error text and the "message" attribute are the native message verbatim.
C5_Translation ==
    last.op = "throw" =>
        /\ last.err.type = HostCategory(last.kind)
        /\ last.err.type \in HostErrors
        /\ last.err.text = last.m
        /\ last.err.attr = <<HostCategory(last.kind), "message", last.m>>

\* an I/O error with a message of two different characters
C5_Witness ==
    /\ last.op = "throw"
    /\ last.kind = "IOException"
    /\ Len(last.m) >= 2
    /\ last.m[1] # last.m[2]
    /\ last.err.type = "IOError"

\* C6: the pair conversion succeeds iff the host value has at least two
\* elements and elements 0 and 1 are convertible to T1 and T2; in every other
\* case it fails with a type conversion error and builds no pair.
C6_PairIff ==
    last.op = "pair" =>
        LET good == /\ Len(last.arg.items) >= 2
                    /\ ExtractCheck(last.T1, last.arg.items[1])
                    /\ ExtractCheck(last.T2, last.arg.items[2])
        IN  /\ good => last.res.status = "ok"
            /\ ~good => (last.res.status = "TypeConversion" /\ last.res.value = << >>)

\* C7: every registration adds one entry under its type key and a second
\* from-python converter under a key that has one is rejected, so no key ever
\* holds more than one entry.
C7_NoDuplicateKey ==
    \A k \in TypeKeys : Len(registry[k]) <= 1

Initialized == pc = Done

\* C8: a Vector_<T> class has get_array iff T is one of numpy_types; the
\* string vector, registered as a sequence type like the others, never has it.
C8_ArrayGate ==
    /\ \A i \in 1..Len(VectorValueTypes) :
          LET T == VectorValueTypes[i]
              C == VectorClassName(T)
          IN  /\ C \in DOMAIN classes =>
                    (("get_array" \in classes[C]) <=> (T \in numpy_types))
              /\ Initialized => C \in DOMAIN classes
    /\ "Vector_string" \in DOMAIN classes =>
          /\ "get_array" \notin classes["Vector_string"]
          /\ registry[VecKey("string")] = <<Entry("vector_from_list", "string", "")>>

\* the loaded module: a numeric vector class with get_array next to the
\* string vector class
C8_Witness ==
    /\ Initialized
    /\ "Vector_string" \in DOMAIN classes
    /\ "Vector_double" \in DOMAIN classes
    /\ "get_array" \in classes["Vector_double"]

SequencesStarted == \E i \in 1..Len(VectorValueTypes) :
                        registry[VecKey(VectorValueTypes[i])] # << >>

SequencesDone == \A i \in 1..Len(VectorValueTypes) :
                     /\ registry[VecKey(VectorValueTypes[i])] # << >>
                     /\ VectorClassName(VectorValueTypes[i]) \in DOMAIN classes

PairsStarted == toPython # {} \/ \E p \in PairTypes : registry[PairKey(p[1], p[2])] # << >>

PairsDone == /\ \A p \in PairTypes : registry[PairKey(p[1], p[2])] # << >>
             /\ PairTypes \subseteq toPython

UnionStarted == registry[DegKey] # << >>

UnionDone == Len(registry[DegKey]) = 2

TranslatorsStarted == translators # << >>

TranslatorsDone == \A k \in NativeErrors : InSeq(k, translators)

OperationTable == "GraphInterface" \in DOMAIN classes

Metadata == "mod_info" \in DOMAIN classes

\* C9 as stated: sequences, then pairs, then tagged-union alternatives, then
\* error translators, then the operation table and metadata; all converters
\* and translators before the operation table.
C9_StatedOrder ==
    /\ PairsStarted => SequencesDone
    /\ UnionStarted => PairsDone
    /\ TranslatorsStarted => UnionDone
    /\ (OperationTable \/ Metadata) =>
          (SequencesDone /\ PairsDone /\ UnionDone /\ TranslatorsDone)

\* C9 amended: the error translators come first, then the sequence wrappers,
\* then the GraphInterface operation table, then the tagged-union
\* alternatives, then the pair adapters, then the metadata object; all of
\* them are registered when the initializer returns.
C9_SourceOrder ==
    /\ (SequencesStarted \/ defs # {}) => TranslatorsDone
    /\ OperationTable => SequencesDone
    /\ UnionStarted => OperationTable
    /\ PairsStarted => UnionDone
    /\ Metadata => PairsDone
    /\ Initialized =>
          (TranslatorsDone /\ SequencesDone /\ OperationTable /\ UnionDone
           /\ PairsDone /\ Metadata)

\* the initializer has returned with everything registered
C9_Witness ==
    /\ Initialized
    /\ last = NoCall
    /\ Metadata
    /\ PairsDone
    /\ "get_graph_type" \in defs

\* C10: vector_equal_compare holds iff the two vectors have the same length
\* and equal elements at every index; two empty vectors are equal.
C10_EqualCompare ==
    last.op = "compare" =>
        (last.eq <=> (/\ Len(last.v1) = Len(last.v2)
                      /\ \A i \in 1..Len(last.v1) : last.v1[i] = last.v2[i]))

\* same length, equal but for the last position
C10_Witness ==
    /\ last.op = "compare"
    /\ Len(last.v1) >= 2
    /\ Len(last.v1) = Len(last.v2)
    /\ \A i \in 1..(Len(last.v1) - 1) : last.v1[i] = last.v2[i]
    /\ last.v1[Len(last.v1)] # last.v2[Len(last.v2)]
    /\ ~last.eq
====
